---- MODULE Spec2Model ----
(***************************************************************************)
(* Model of the GitHub integration of Prismo: the GitHubAPIClient of       *)
(* src/prismo/exts/api/github.py (session lifecycle, the two fetch        *)
(* operations and the mapping of a JSON response to the attrs records),   *)
(* the GitHub cog that drives it from the host's connect, disconnect,     *)
(* command and message events, and convert_to_date.                       *)
(***************************************************************************)
EXTENDS Integers, Sequences, FiniteSets, TLC

VARIABLES
    _setted_up,      \* GitHubAPIClient._setted_up
    _token,          \* GitHubAPIClient._token (Unset until setup assigns it)
    _session,        \* GitHubAPIClient._session: 0 (NoAttr) or the index of a ClientSession
    sessions,        \* the ClientSession objects created so far: "open" / "closed"
    listener_error,  \* exception raised by the last cog listener ("none" if it returned)
    pc,              \* per calling task: idle, get (awaiting session.get), json (awaiting response.json), done
    call,            \* per calling task: the operation in progress and its arguments
    wire,            \* per calling task: the HTTP requests the call has put on the wire
    response,        \* per calling task: the local variable `response`
    result,          \* per calling task: what the call returned or raised
    message,         \* the chat message last delivered to the message listener
    matches          \* the references the message listener reported for it

client == <<_setted_up, _token, _session, sessions>>
tasks == <<pc, call, wire, response, result>>
vars == <<_setted_up, _token, _session, sessions, listener_error,
          pc, call, wire, response, result, message, matches>>

----------------------------------------------------------------------------
(* Bounds of the model *)

\* connect events the host fires (each creates one ClientSession)
MaxConnects == 2
\* tasks that call the client concurrently
NCallers == 2
\* tokens of a chat message
MaxMsgLen == 7

(* Program constants *)
MAXIMUM_ISSUES == 5

----------------------------------------------------------------------------
(* Python and JSON values *)

None == "<None>"          \* Python None, also what JSON null decodes to
Absent == "<absent>"      \* the key is not in the decoded dict
NoAttr == 0               \* _session was never assigned (sessions are numbered from 1)
Unset == "<unset>"        \* _token was never assigned

\* dict.get(key): None when the key is missing, else the stored value (None for null)
dict_get(v) == IF v = Absent THEN None ELSE v

----------------------------------------------------------------------------
(* convert_to_date: datetime.strptime(date, "%Y-%m-%dT%H:%M:%SZ") *)

D_VALID == "2023-01-02T03:04:05Z"
D_LEAP == "2024-02-29T23:59:59Z"
D_GARBAGE == "not-a-date"
D_FEB30 == "2023-02-30T00:00:00Z"
D_NOZ == "2023-01-02T03:04:05"

\* the characters of each timestamp string the server is modelled to send
Chars(s) ==
    CASE s = D_VALID -> <<"2","0","2","3","-","0","1","-","0","2","T","0","3",":","0","4",":","0","5","Z">>
      [] s = D_LEAP -> <<"2","0","2","4","-","0","2","-","2","9","T","2","3",":","5","9",":","5","9","Z">>
      [] s = D_GARBAGE -> <<"n","o","t","-","a","-","d","a","t","e">>
      [] s = D_FEB30 -> <<"2","0","2","3","-","0","2","-","3","0","T","0","0",":","0","0",":","0","0","Z">>
      [] s = D_NOZ -> <<"2","0","2","3","-","0","1","-","0","2","T","0","3",":","0","4",":","0","5">>
      [] OTHER -> <<>>

Digits == {"0","1","2","3","4","5","6","7","8","9"}

DigitVal(c) ==
    CASE c = "0" -> 0 [] c = "1" -> 1 [] c = "2" -> 2 [] c = "3" -> 3 [] c = "4" -> 4
      [] c = "5" -> 5 [] c = "6" -> 6 [] c = "7" -> 7 [] c = "8" -> 8 [] c = "9" -> 9

IsLeap(y) == (y % 4 = 0 /\ y % 100 # 0) \/ y % 400 = 0

DaysIn(y, m) ==
    IF m = 2 THEN (IF IsLeap(y) THEN 29 ELSE 28)
    ELSE IF m \in {4, 6, 9, 11} THEN 30 ELSE 31

\* the literal that follows each directive of "%Y-%m-%dT%H:%M:%SZ"
Literals == <<"-", "-", "T", ":", ":", "Z">>

\* %Y takes four digits; %m, %d, %H, %M and %S take one or two
Widths == {w \in [1..6 -> {1, 2, 4}] : w[1] = 4 /\ \A k \in 2..6 : w[k] # 4}

\* where field k starts when the fields have the widths w
RECURSIVE FieldStart(_, _)
FieldStart(w, k) == IF k = 1 THEN 1 ELSE FieldStart(w, k - 1) + w[k - 1] + 1

\* s is six runs of digits of the widths w, each followed by its literal, and no more
HasLayout(s, w) ==
    /\ Len(s) = FieldStart(w, 6) + w[6]
    /\ \A k \in 1..6 :
          /\ \A p \in FieldStart(w, k)..(FieldStart(w, k) + w[k] - 1) : s[p] \in Digits
          /\ s[FieldStart(w, k) + w[k]] = Literals[k]

\* value of the w digits of s from position p
RECURSIVE FieldVal(_, _, _)
FieldVal(s, p, w) ==
    IF w = 0 THEN 0 ELSE FieldVal(s, p, w - 1) * 10 + DigitVal(s[p + w - 1])

\* the fields fit their directive and make a date datetime() accepts
ValidDate(dt) ==
    /\ dt[1] >= 1
    /\ dt[2] >= 1 /\ dt[2] <= 12
    /\ dt[3] >= 1 /\ dt[3] <= DaysIn(dt[1], dt[2])
    /\ dt[4] <= 23
    /\ dt[5] <= 59
    /\ dt[6] <= 59

\* strptime on a non-empty string: [ok |-> TRUE, dt |-> the six fields], or a ValueError
strptime(s) ==
    LET parsed == {[k \in 1..6 |-> FieldVal(s, FieldStart(w, k), w[k])] :
                      w \in {v \in Widths : HasLayout(s, v)}}
        valid == {dt \in parsed : ValidDate(dt)}
    IN  IF valid = {} THEN [ok |-> FALSE, dt |-> <<>>]
        ELSE [ok |-> TRUE, dt |-> CHOOSE dt \in valid : TRUE]

\* the timestamp strings the server is modelled to send, each parsed once
Timestamps == {D_VALID, D_LEAP, D_GARBAGE, D_FEB30, D_NOZ}
parse == [s \in Timestamps |-> strptime(Chars(s))]

\* convert_to_date: None for a falsy input, else the parsed datetime or a ValueError
convert_to_date(date) ==
    IF date = None \/ date = "" THEN [kind |-> "None", dt |-> <<>>]
    ELSE IF parse[date].ok THEN [kind |-> "datetime", dt |-> parse[date].dt]
    ELSE [kind |-> "ValueError", dt |-> <<>>]

----------------------------------------------------------------------------
(* The decoded JSON body of a response.  A nested object is a record whose   *)
(* field t says whether the key is missing, null or an object; every other   *)
(* key holds a string, None (null) or Absent.                                *)

MissingObj == [t |-> "absent", type |-> Absent, login |-> Absent,
               avatar_url |-> Absent, html_url |-> Absent]
NullObj == [t |-> "null", type |-> Absent, login |-> Absent,
            avatar_url |-> Absent, html_url |-> Absent]
UserObj(kind, login) ==
    [t |-> "obj", type |-> kind, login |-> login,
     avatar_url |-> "avatar", html_url |-> "profile"]

MissingPR == [t |-> "absent", url |-> Absent]
NullPR == [t |-> "null", url |-> Absent]
PRObj(url) == [t |-> "obj", url |-> url]

\* what a fetch returns to its caller: a record, or the exception it raised
Raised(e) == [kind |-> "error", err |-> e, rec |-> <<>>]
Returned(r) == [kind |-> "record", err |-> "none", rec |-> <<r>>]
NoResult == [kind |-> "none", err |-> "none", rec |-> <<>>]

\* the GitHubUser built from the author dict (github.py 144-152 and 191-199)
GitHubUser(author) ==
    [user_type |-> IF dict_get(author.type) = "User" THEN "user" ELSE "organization",
     name |-> dict_get(author.login),
     avatar_url |-> dict_get(author.avatar_url),
     profile_url |-> dict_get(author.html_url)]

\* the attrs converters of one record: ValueError when any of them raises
AnyValueError(ds) == \E i \in 1..Len(ds) : convert_to_date(ds[i]).kind = "ValueError"

\* the GitHubRepo(...) expression of fetch_repository, lines 140-165
GitHubRepo_fields(data) ==
    IF data.owner.t = "null" THEN Raised("AttributeError")
    ELSE IF AnyValueError(<<dict_get(data.pushed_at), dict_get(data.created_at),
                            dict_get(data.updated_at)>>)
    THEN Raised("ValueError")
    ELSE Returned(
        [full_name |-> dict_get(data.full_name),
         description |-> dict_get(data.description),
         fork |-> dict_get(data.fork),
         owner |-> GitHubUser(data.owner),
         url |-> dict_get(data.html_url),
         stats |->
            [forks_count |-> dict_get(data.forks_count),
             stars |-> dict_get(data.stargazers_count),
             default_branch |-> dict_get(data.default_branch),
             open_issues_and_prs |-> dict_get(data.open_issues),
             topics |-> dict_get(data.topics),
             archived |-> dict_get(data.archived),
             pushed_at |-> convert_to_date(dict_get(data.pushed_at)),
             created_at |-> convert_to_date(dict_get(data.created_at)),
             updated_at |-> convert_to_date(dict_get(data.updated_at))]])

\* a mapping that subscripts full_name too, so that its absence raises as well
GitHubRepo_strict(data) ==
    IF data.owner.t = "absent" \/ data.full_name = Absent THEN Raised("KeyError")
    ELSE GitHubRepo_fields(data)

\* fetch_repository, lines 138-165: author = data["owner"], then GitHubRepo(...)
GitHubRepo(data) ==
    IF data.owner.t = "absent" THEN Raised("KeyError")
    ELSE GitHubRepo_fields(data)

\* fetch_issue_or_pr, lines 170-200: author = data["user"], then GitHubInfo(...)
GitHubInfo(data) ==
    IF data.user.t = "absent" THEN Raised("KeyError")
    ELSE IF data.pull_request.t = "null" \/ data.user.t = "null"
    THEN Raised("AttributeError")
    ELSE IF AnyValueError(<<dict_get(data.closed_at), dict_get(data.created_at),
                            dict_get(data.updated_at)>>)
    THEN Raised("ValueError")
    ELSE Returned(
        [info_type |-> IF data.pull_request.t # "absent" THEN "pull_request" ELSE "issue",
         url |-> IF data.pull_request.t # "absent"
                 THEN dict_get(data.pull_request.url)
                 ELSE dict_get(data.url),
         comments_url |-> dict_get(data.comments_url),
         number |-> dict_get(data.number),
         state |-> dict_get(data.state),
         state_reason |-> dict_get(data.state_reason),
         title |-> dict_get(data.title),
         description |-> dict_get(data.body),
         number_of_comments |-> dict_get(data.comments),
         closed_at |-> convert_to_date(dict_get(data.closed_at)),
         created_at |-> convert_to_date(dict_get(data.created_at)),
         updated_at |-> convert_to_date(dict_get(data.updated_at)),
         author |-> GitHubUser(data.user)])

----------------------------------------------------------------------------
(* The remote server: the responses it may give to a GET.  The client does   *)
(* not control them, so every status is paired with every body.              *)

github_token == "github_token"      \* BotConfig.github_token

Pairs == {<<"DisnakeDev", "disnake">>, <<"Snipy7374", "Prismo">>}
Numbers == {"982"}

FullName(owner, repo_name) ==
    CASE owner = "DisnakeDev" /\ repo_name = "disnake" -> "DisnakeDev/disnake"
      [] owner = "Snipy7374" /\ repo_name = "Prismo" -> "Snipy7374/Prismo"
      [] OTHER -> "unknown/unknown"

\* FETCH_REPO_URL.format(...) and FETCH_ISSUE_URL.format(...)
FETCH_REPO_URL(owner, repo_name) == <<"repos", owner, repo_name>>
FETCH_ISSUE_URL(owner, repo_name, n_issue) == <<"repos", owner, repo_name, "issues", n_issue>>

Statuses == {200, 401, 403, 404, 500}
Is2xx(status) == status >= 200 /\ status <= 299

\* what a timestamp key may hold
TimestampValues == {Absent, None, ""} \cup Timestamps

\* the repository the server describes at url, with every key present
RepoFixture(url) ==
    [owner |-> UserObj("User", url[2]),
     full_name |-> FullName(url[2], url[3]),
     description |-> "a description",
     fork |-> "false",
     html_url |-> "html_url",
     forks_count |-> "12",
     stargazers_count |-> "34",
     default_branch |-> "main",
     open_issues |-> "5",
     topics |-> "['bot']",
     archived |-> "false",
     pushed_at |-> D_VALID,
     created_at |-> D_VALID,
     updated_at |-> D_VALID]

\* the fixture with one key changed, missing or null; or an error body
RepoBodies(url) ==
    LET base == RepoFixture(url) IN
    {base}
    \cup {[base EXCEPT !.owner = o] :
            o \in {MissingObj, NullObj, UserObj("Organization", url[2]),
                   UserObj(Absent, url[2]), UserObj("Bot", Absent)}}
    \cup {[base EXCEPT !.pushed_at = v] : v \in TimestampValues}
    \cup {[base EXCEPT !.created_at = v] : v \in TimestampValues}
    \cup {[base EXCEPT !.updated_at = v] : v \in TimestampValues}
    \cup {[base EXCEPT !.full_name = v] : v \in {Absent, None}}
    \cup {[base EXCEPT !.topics = Absent, !.description = None]}
    \cup {[k \in DOMAIN base |-> IF k = "owner" THEN MissingObj ELSE Absent]}

\* the issue the server describes at url, with every key but pull_request present
IssueFixture(url) ==
    [user |-> UserObj("User", "author"),
     pull_request |-> MissingPR,
     url |-> "issue_url",
     comments_url |-> "comments_url",
     number |-> url[5],
     state |-> "open",
     state_reason |-> None,
     title |-> "a title",
     body |-> "a body",
     comments |-> "3",
     closed_at |-> None,
     created_at |-> D_VALID,
     updated_at |-> D_VALID]

IssueBodies(url) ==
    LET base == IssueFixture(url) IN
    {base}
    \cup {[base EXCEPT !.user = o] :
            o \in {MissingObj, NullObj, UserObj("Organization", "author")}}
    \cup {[base EXCEPT !.pull_request = p] :
            p \in {NullPR, PRObj("pr_url"), PRObj(Absent)}}
    \cup {[base EXCEPT !.pull_request = PRObj("pr_url"), !.url = Absent]}
    \cup {[base EXCEPT !.closed_at = v] : v \in TimestampValues}
    \cup {[base EXCEPT !.created_at = v] : v \in TimestampValues}
    \cup {[base EXCEPT !.updated_at = v] : v \in TimestampValues}
    \cup {[base EXCEPT !.url = Absent], [base EXCEPT !.title = Absent]}
    \cup {[k \in DOMAIN base |->
            IF k = "user" THEN MissingObj ELSE IF k = "pull_request" THEN MissingPR
            ELSE Absent]}

\* every response the server may give to the request c
AnyResponse(c) ==
    [status : Statuses,
     body : {<<b>> : b \in IF c.op = "fetch_repository"
                            THEN RepoBodies(FETCH_REPO_URL(c.owner, c.repo_name))
                            ELSE IssueBodies(FETCH_ISSUE_URL(c.owner, c.repo_name, c.n))}]

\* the responses of a server that answers 200 with the fixture, 200 without the
\* owner, or 404 with an error body
PlainResponse(c) ==
    LET base == RepoFixture(FETCH_REPO_URL(c.owner, c.repo_name)) IN
    {[status |-> 200, body |-> <<base>>],
     [status |-> 200, body |-> <<[base EXCEPT !.owner = MissingObj]>>],
     [status |-> 404,
      body |-> <<[k \in DOMAIN base |-> IF k = "owner" THEN MissingObj ELSE Absent]>>]}

----------------------------------------------------------------------------
(* State after construction: GitHub.__init__ builds GitHubAPIClient(), whose *)
(* __init__ assigns _setted_up alone.                                        *)

NoCall == [op |-> "none", owner |-> None, repo_name |-> None, n |-> None]
NoResponse == [status |-> 0, body |-> <<>>]
Callers == 1..NCallers

Init ==
    /\ _setted_up = FALSE
    /\ _token = Unset
    /\ _session = NoAttr
    /\ sessions = <<>>
    /\ listener_error = "none"
    /\ pc = [t \in Callers |-> "idle"]
    /\ call = [t \in Callers |-> NoCall]
    /\ wire = [t \in Callers |-> <<>>]
    /\ response = [t \in Callers |-> NoResponse]
    /\ result = [t \in Callers |-> NoResult]
    /\ message = <<>>
    /\ matches = <<>>

----------------------------------------------------------------------------
(* GitHubAPIClient *)

\* setup, lines 114-124: assigns the token and a newly created ClientSession
setup(token) ==
    /\ _token' = token
    /\ sessions' = Append(sessions, "open")
    /\ _session' = Len(sessions) + 1
    /\ UNCHANGED _setted_up

\* is_ready, lines 126-130
is_ready == IF ~_setted_up THEN FALSE ELSE TRUE

\* close, lines 132-133, on a client that has a session: ClientSession.close()
\* closes it, and does nothing to a session already closed
close ==
    /\ sessions' = [sessions EXCEPT ![_session] = "closed"]
    /\ UNCHANGED <<_setted_up, _token, _session>>

\* a get that creates the session on first use instead of failing
session_get_lazy(t, url) ==
    /\ response' = [response EXCEPT ![t] = NoResponse]
    /\ result' = [result EXCEPT ![t] = NoResult]
    /\ pc' = [pc EXCEPT ![t] = "get"]
    /\ IF _session = NoAttr
       THEN /\ setup(github_token)
            /\ wire' = [wire EXCEPT ![t] = <<[method |-> "GET", url |-> url, session |-> 1]>>]
       ELSE /\ UNCHANGED client
            /\ wire' = [wire EXCEPT ![t] =
                         <<[method |-> "GET", url |-> url, session |-> _session]>>]

\* a get that sends the request a second time
session_get_retry(t, url) ==
    /\ UNCHANGED client
    /\ response' = [response EXCEPT ![t] = NoResponse]
    /\ IF _session = NoAttr
       THEN /\ result' = [result EXCEPT ![t] = Raised("AttributeError")]
            /\ wire' = [wire EXCEPT ![t] = <<>>]
            /\ pc' = [pc EXCEPT ![t] = "done"]
       ELSE IF sessions[_session] = "closed"
       THEN /\ result' = [result EXCEPT ![t] = Raised("RuntimeError")]
            /\ wire' = [wire EXCEPT ![t] = <<>>]
            /\ pc' = [pc EXCEPT ![t] = "done"]
       ELSE /\ result' = [result EXCEPT ![t] = NoResult]
            /\ wire' = [wire EXCEPT ![t] =
                         <<[method |-> "GET", url |-> url, session |-> _session],
                           [method |-> "GET", url |-> url, session |-> _session]>>]
            /\ pc' = [pc EXCEPT ![t] = "get"]

\* self._session.get(url), lines 136 and 168: the attribute lookup raises when setup
\* never ran, ClientSession refuses a request once closed, else one GET goes out
session_get(t, url) ==
    /\ UNCHANGED client
    /\ response' = [response EXCEPT ![t] = NoResponse]
    /\ IF _session = NoAttr
       THEN /\ result' = [result EXCEPT ![t] = Raised("AttributeError")]
            /\ wire' = [wire EXCEPT ![t] = <<>>]
            /\ pc' = [pc EXCEPT ![t] = "done"]
       ELSE IF sessions[_session] = "closed"
       THEN /\ result' = [result EXCEPT ![t] = Raised("RuntimeError")]
            /\ wire' = [wire EXCEPT ![t] = <<>>]
            /\ pc' = [pc EXCEPT ![t] = "done"]
       ELSE /\ result' = [result EXCEPT ![t] = NoResult]
            /\ wire' = [wire EXCEPT ![t] =
                         <<[method |-> "GET", url |-> url, session |-> _session]>>]
            /\ pc' = [pc EXCEPT ![t] = "get"]

\* fetch_repository up to its first await, line 136
fetch_repository(t, owner, repo_name) ==
    /\ pc[t] = "idle"
    /\ call' = [call EXCEPT ![t] = [op |-> "fetch_repository", owner |-> owner,
                                    repo_name |-> repo_name, n |-> None]]
    /\ session_get(t, FETCH_REPO_URL(owner, repo_name))
    /\ UNCHANGED <<listener_error, message, matches>>

\* fetch_issue_or_pr up to its first await, line 168
fetch_issue_or_pr(t, owner, repo_name, n_issue_or_pr) ==
    /\ pc[t] = "idle"
    /\ call' = [call EXCEPT ![t] = [op |-> "fetch_issue_or_pr", owner |-> owner,
                                    repo_name |-> repo_name, n |-> n_issue_or_pr]]
    /\ session_get(t, FETCH_ISSUE_URL(owner, repo_name, n_issue_or_pr))
    /\ UNCHANGED <<listener_error, message, matches>>

\* a response kept in one slot of the client: a call finds there the response
\* another call is still reading
shared_response(t, r) ==
    IF \E u \in Callers \ {t} : pc[u] = "json"
    THEN response[CHOOSE u \in Callers \ {t} : pc[u] = "json"]
    ELSE r

\* the response the call of task t reads: the one to its own request
own_response(t, r) == r

\* `response = await self._session.get(...)` resumes: the server has answered the
\* request of task t with r, over a session that is still open
await_get(t, r) ==
    /\ pc[t] = "get"
    /\ sessions[wire[t][1].session] = "open"
    /\ response' = [response EXCEPT ![t] = own_response(t, r)]
    /\ pc' = [pc EXCEPT ![t] = "json"]
    /\ UNCHANGED <<client, listener_error, call, wire, result, message, matches>>

\* the session was closed under a request in flight: the awaited call raises
conn_lost(t) ==
    /\ pc[t] \in {"get", "json"}
    /\ sessions[wire[t][1].session] = "closed"
    /\ result' = [result EXCEPT ![t] = Raised("ClientConnectionError")]
    /\ pc' = [pc EXCEPT ![t] = "done"]
    /\ UNCHANGED <<client, listener_error, call, wire, response, message, matches>>

\* fetch_repository from `data = await response.json()` to its return, lines 137-165
fetch_repository_json(t) ==
    /\ pc[t] = "json"
    /\ call[t].op = "fetch_repository"
    /\ result' = [result EXCEPT ![t] = GitHubRepo(response[t].body[1])]
    /\ pc' = [pc EXCEPT ![t] = "done"]
    /\ UNCHANGED <<client, listener_error, call, wire, response, message, matches>>

\* fetch_issue_or_pr from `data = await response.json()` to its return, lines 169-200
fetch_issue_or_pr_json(t) ==
    /\ pc[t] = "json"
    /\ call[t].op = "fetch_issue_or_pr"
    /\ result' = [result EXCEPT ![t] = GitHubInfo(response[t].body[1])]
    /\ pc' = [pc EXCEPT ![t] = "done"]
    /\ UNCHANGED <<client, listener_error, call, wire, response, message, matches>>

\* the caller takes the record or the exception; the call's locals are gone
caller_resume(t) ==
    /\ pc[t] = "done"
    /\ pc' = [pc EXCEPT ![t] = "idle"]
    /\ call' = [call EXCEPT ![t] = NoCall]
    /\ wire' = [wire EXCEPT ![t] = <<>>]
    /\ response' = [response EXCEPT ![t] = NoResponse]
    /\ result' = [result EXCEPT ![t] = NoResult]
    /\ UNCHANGED <<client, listener_error, message, matches>>

----------------------------------------------------------------------------
(* The GitHub cog *)

\* open_gh_client, lines 208-211: the listener of the host's connect event
open_gh_client ==
    /\ Len(sessions) < MaxConnects
    /\ setup(github_token)
    /\ listener_error' = "none"
    /\ UNCHANGED <<tasks, message, matches>>

\* close_gh_client, lines 213-216: the listener of the host's disconnect event;
\* before any connect the client has no _session attribute and close() raises
close_gh_client ==
    /\ IF _session = NoAttr
       THEN listener_error' = "AttributeError" /\ UNCHANGED client
       ELSE close /\ listener_error' = "none"
    /\ UNCHANGED <<tasks, message, matches>>

\* the repo command, lines 218-220: up to the first await of fetch_repository
repo(t, owner, name) == fetch_repository(t, owner, name)

\* a token of a chat message: an org/repo#number reference, a repo#number
\* reference, or a word
Tokens ==
    {[org |-> "Disnake", repo |-> "disnake", number |-> "123"],
     [org |-> "", repo |-> "prismo", number |-> "7"],
     [org |-> "", repo |-> "word", number |-> ""]}

\* AUTOMATIC_REGEX, lines 28-30, on one token: the repo and number groups need at
\* least one character each, the org group is optional
AUTOMATIC_REGEX(tok) == tok.repo # "" /\ tok.number # ""

\* AUTOMATIC_REGEX.finditer(message): the matching tokens, left to right
finditer(msg) == SelectSeq(msg, AUTOMATIC_REGEX)

Messages == UNION {[1..n -> Tokens] : n \in 0..MaxMsgLen}

\* handle_issues_or_prs_mentions, lines 222-224: the body is `pass`
handle_issues_or_prs_mentions(msg) ==
    /\ message' = msg
    /\ matches' = <<>>
    /\ UNCHANGED <<client, listener_error, tasks>>

----------------------------------------------------------------------------
(* Specifications *)

\* one task calling both fetch operations while the host connects and disconnects,
\* against a server that may answer anything
Next ==
    \/ open_gh_client
    \/ close_gh_client
    \/ \E p \in Pairs : fetch_repository(1, p[1], p[2])
    \/ \E p \in Pairs, n \in Numbers : fetch_issue_or_pr(1, p[1], p[2], n)
    \/ \E r \in AnyResponse(call[1]) : await_get(1, r)
    \/ conn_lost(1)
    \/ fetch_repository_json(1)
    \/ fetch_issue_or_pr_json(1)
    \/ caller_resume(1)

Spec == Init /\ [][Next]_vars

\* the pair each concurrent repo command asks for: distinct for distinct tasks
PairOf(t) == IF t % 2 = 1 THEN <<"DisnakeDev", "disnake">> ELSE <<"Snipy7374", "Prismo">>

\* the client holds an open session
Connected == \E i \in 1..Len(sessions) : sessions[i] = "open"

\* concurrent repo commands on the one client, while the host goes through its
\* reconnect cycle: connect, disconnect, connect again
NextConc ==
    \/ ~Connected /\ open_gh_client
    \/ Connected /\ close_gh_client
    \/ \E t \in Callers : repo(t, PairOf(t)[1], PairOf(t)[2])
    \/ \E t \in Callers : \E r \in PlainResponse(call[t]) : await_get(t, r)
    \/ \E t \in Callers : conn_lost(t)
    \/ \E t \in Callers : fetch_repository_json(t)
    \/ \E t \in Callers : caller_resume(t)

SpecConc == Init /\ [][NextConc]_vars

\* the message listener alone
NextMention == \E msg \in Messages : handle_issues_or_prs_mentions(msg)

SpecMention == Init /\ [][NextMention]_vars

\* the asyncio loop resumes every task whose awaited I/O has completed, and the
\* server answers every request it receives over an open session
FairSpecConc ==
    /\ SpecConc
    /\ \A t \in Callers :
          WF_vars(\/ \E r \in PlainResponse(call[t]) : await_get(t, r)
                  \/ conn_lost(t)
                  \/ fetch_repository_json(t))

----------------------------------------------------------------------------
(* Properties *)

OpenSessions == {i \in 1..Len(sessions) : sessions[i] = "open"}

\* every setup call assigns self._session once and creates one session
handle_writes == Len(sessions)

\* task t has finished a call that received a response and built its outcome from it
Answered(t) ==
    /\ pc[t] = "done"
    /\ response[t] # NoResponse
    /\ result[t].err # "ClientConnectionError"

data_of(t) == response[t].body[1]

\* task t takes a step of a fetch call (not the caller's resumption)
CallStep(t) == pc'[t] # pc[t] /\ pc'[t] # "idle"

\* C1: over any sequence of connect and disconnect events the session handle is
\* written exactly once and at most one session created by the client is open.
C1_SingleSession ==
    /\ handle_writes <= 1
    /\ Cardinality(OpenSessions) <= 1

\* C2: is_ready is false on a freshly constructed client and true in every state
\* after setup has completed and before close.
C2_IsReady ==
    /\ sessions = <<>> => ~is_ready
    /\ (_session # NoAttr /\ sessions[_session] = "open") => is_ready

\* C3: a fetch on a client on which setup was never called fails at once with an
\* error: no request goes out, no record comes back, the client is unchanged.
C3_FailFast ==
    [][\A t \in Callers :
         (pc[t] = "idle" /\ pc'[t] # "idle" /\ sessions = <<>>) =>
            /\ pc'[t] = "done"
            /\ result'[t].kind = "error"
            /\ wire'[t] = <<>>
            /\ response'[t] = NoResponse
            /\ UNCHANGED client]_vars

C3_Witness ==
    /\ sessions = <<>>
    /\ \E t \in Callers :
          /\ pc[t] = "done"
          /\ call[t].op = "fetch_issue_or_pr"
          /\ result[t] = Raised("AttributeError")

\* C4: the HTTP status decides the outcome: 404 gives NotFound, 401 and 403 give
\* Unauthorized, any other non-2xx gives RemoteError, and only a 2xx gives a record.
C4_StatusDecides ==
    \A t \in Callers :
        Answered(t) =>
            LET st == response[t].status IN
            /\ st = 404 => result[t] = Raised("NotFound")
            /\ st \in {401, 403} => result[t] = Raised("Unauthorized")
            /\ (~Is2xx(st) /\ st \notin {401, 403, 404}) => result[t] = Raised("RemoteError")
            /\ result[t].kind = "record" => Is2xx(st)

\* the key of the author object in the response of each operation
AuthorOf(t) == IF call[t].op = "fetch_repository" THEN data_of(t).owner ELSE data_of(t).user

TimestampKeys(t) ==
    IF call[t].op = "fetch_repository" THEN {"pushed_at", "created_at", "updated_at"}
    ELSE {"closed_at", "created_at", "updated_at"}

\* the keys of the response read with dict.get, besides the timestamps
PlainKeys(t) ==
    IF call[t].op = "fetch_repository"
    THEN {"full_name", "description", "fork", "html_url", "forks_count",
          "stargazers_count", "default_branch", "open_issues", "topics", "archived"}
    ELSE {"comments_url", "number", "state", "state_reason", "title", "body", "comments"}

\* the field of the returned record that key k of the response fills
FieldOf(t, k) ==
    LET rec == result[t].rec[1] IN
    IF call[t].op = "fetch_repository"
    THEN CASE k = "full_name" -> rec.full_name
           [] k = "description" -> rec.description
           [] k = "fork" -> rec.fork
           [] k = "html_url" -> rec.url
           [] k = "forks_count" -> rec.stats.forks_count
           [] k = "stargazers_count" -> rec.stats.stars
           [] k = "default_branch" -> rec.stats.default_branch
           [] k = "open_issues" -> rec.stats.open_issues_and_prs
           [] k = "topics" -> rec.stats.topics
           [] k = "archived" -> rec.stats.archived
    ELSE CASE k = "comments_url" -> rec.comments_url
           [] k = "number" -> rec.number
           [] k = "state" -> rec.state
           [] k = "state_reason" -> rec.state_reason
           [] k = "title" -> rec.title
           [] k = "body" -> rec.description
           [] k = "comments" -> rec.number_of_comments

\* the timestamp field of the returned record that key k fills
DateOf(t, k) ==
    LET rec == result[t].rec[1] IN
    IF call[t].op = "fetch_repository"
    THEN CASE k = "pushed_at" -> rec.stats.pushed_at
           [] k = "created_at" -> rec.stats.created_at
           [] k = "updated_at" -> rec.stats.updated_at
    ELSE CASE k = "closed_at" -> rec.closed_at
           [] k = "created_at" -> rec.created_at
           [] k = "updated_at" -> rec.updated_at

\* the author of the returned record
UserOf(t) ==
    IF call[t].op = "fetch_repository" THEN result[t].rec[1].owner ELSE result[t].rec[1].author

\* a value of the response, as opposed to a missing key, makes the mapping raise: a
\* timestamp string that does not parse, or a null pull_request
RaisingValue(t) ==
    \/ \E k \in TimestampKeys(t) : convert_to_date(dict_get(data_of(t)[k])).kind = "ValueError"
    \/ call[t].op = "fetch_issue_or_pr" /\ data_of(t).pull_request.t = "null"

\* with the author object present: no missing key raises, and each leaves None
AbsentKeysGiveNone(t) ==
    /\ result[t].kind = "error" => RaisingValue(t)
    /\ result[t].kind = "record" =>
          /\ \A k \in PlainKeys(t) : data_of(t)[k] = Absent => FieldOf(t, k) = None
          /\ \A k \in TimestampKeys(t) : data_of(t)[k] = Absent => DateOf(t, k).kind = "None"
          /\ AuthorOf(t).login = Absent => UserOf(t).name = None
          /\ AuthorOf(t).avatar_url = Absent => UserOf(t).avatar_url = None
          /\ AuthorOf(t).html_url = Absent => UserOf(t).profile_url = None
          /\ AuthorOf(t).type = Absent => UserOf(t).user_type = "organization"
          /\ call[t].op = "fetch_issue_or_pr" =>
                /\ (data_of(t).pull_request.t = "absent" /\ data_of(t).url = Absent)
                      => result[t].rec[1].url = None
                /\ (data_of(t).pull_request.t = "obj" /\ data_of(t).pull_request.url = Absent)
                      => result[t].rec[1].url = None

C6_Disambiguation ==
    \A t \in Callers :
        (/\ Answered(t)
         /\ call[t].op = "fetch_issue_or_pr"
         /\ data_of(t).user.t = "obj"
         /\ \A k \in TimestampKeys(t) :
               convert_to_date(dict_get(data_of(t)[k])).kind # "ValueError") =>
            /\ result[t].kind = "record"
            /\ IF data_of(t).pull_request.t # "absent"
               THEN /\ result[t].rec[1].info_type = "pull_request"
                    /\ result[t].rec[1].url = dict_get(data_of(t).pull_request.url)
               ELSE /\ result[t].rec[1].info_type = "issue"
                    /\ result[t].rec[1].url = dict_get(data_of(t).url)

\* C7: every returned record has a created_at timestamp, and each of closed_at,
\* updated_at and pushed_at is absent exactly when the response does not report it.
C7_CreatedAtPresent ==
    \A t \in Callers :
        (Answered(t) /\ result[t].kind = "record") =>
            /\ DateOf(t, "created_at").kind = "datetime"
            /\ \A k \in TimestampKeys(t) \ {"created_at"} :
                  DateOf(t, k).kind = "None" <=> data_of(t)[k] \in {Absent, None, ""}

Min(a, b) == IF a <= b THEN a ELSE b

\* C8: the message listener reports the references of a message left to right and
\* keeps the first min(n, 5) of them.
C8_FirstFive ==
    matches = SubSeq(finditer(message), 1, Min(Len(finditer(message)), MAXIMUM_ISSUES))

\* concurrent calls never hand one call the data of another: a returned record is
\* the one the server describes at the caller's own owner and repository
OwnRecord ==
    \A t \in Callers :
        (pc[t] = "done" /\ result[t].kind = "record") =>
            /\ result[t].rec[1].full_name = FullName(call[t].owner, call[t].repo_name)
            /\ result[t].rec[1].owner.name = call[t].owner
            /\ result[t] = GitHubRepo(data_of(t))

\* C9: under any interleaving of concurrent fetch_repository calls for distinct
\* pairs every call completes and returns the record built from its own response.
C9_Independent ==
    /\ []OwnRecord
    /\ \A t \in Callers : (pc[t] \in {"get", "json"}) ~> (pc[t] = "done")

C9_Witness ==
    /\ \A t \in {1, 2} : pc[t] = "done" /\ result[t].kind = "record"
    /\ result[1].rec[1].full_name # result[2].rec[1].full_name
    /\ wire[1][1].session = wire[2][1].session

\* C10 as written: a fetch leaves the token, the session handle and the readiness
\* flag unchanged, and every call sends exactly one GET.
C10_ExactlyOneGet ==
    [][\A t \in Callers :
         CallStep(t) =>
            /\ UNCHANGED client
            /\ pc'[t] = "done" =>
                  /\ Len(wire'[t]) = 1
                  /\ wire'[t][1].method = "GET"]_vars

\* C10 as the code has it: a fetch leaves the client unchanged and sends at most one
\* GET: exactly one when the handle holds an open session at the call, none when
\* setup never ran or the session is closed; nothing is sent after that.
C10_AtMostOneGet ==
    [][\A t \in Callers :
         CallStep(t) =>
            /\ UNCHANGED client
            /\ \A i \in 1..Len(wire'[t]) : wire'[t][i].method = "GET"
            /\ IF pc[t] = "idle"
               THEN Len(wire'[t]) =
                       IF _session # NoAttr /\ sessions[_session] = "open" THEN 1 ELSE 0
               ELSE wire'[t] = wire[t]]_vars

C10_Witness ==
    \E t \in Callers :
        /\ pc[t] = "done"
        /\ result[t].kind = "record"
        /\ Len(wire[t]) = 1
        /\ _token = github_token

====
